---- MODULE Spec2Model ----
(***************************************************************************)
(* State-machine model of the tool handlers registered by getServer() in   *)
(* src/src/mcp-server.ts: odataQuery, the direct create/count operations   *)
(* and the composite createSalesOrder workflow.                            *)
(*                                                                         *)
(* Every handler is an async function; an invocation is modelled as a      *)
(* process whose steps are the code between two await points.  The Gateway *)
(* (makeApiCall), the notification transport (context.sendNotification)    *)
(* and the entity registry (EntityManager) are collaborators: their        *)
(* answers are nondeterministic inputs of the steps that await them.       *)
(*                                                                         *)
(* Optional values (zod .optional(), absent object keys) are encoded as    *)
(* None = <<>> and Some(v) = <<v>>.  Template strings are encoded as the   *)
(* tuple of their fixed and interpolated parts.                            *)
(***************************************************************************)
EXTENDS Integers, Sequences, FiniteSets, TLC

\* ------------------------------------------------------------------ bounds
MaxLines == 2          \* longest `lines` array of a createSalesOrder call
MaxProgress == 1       \* progress notifications the Gateway relays per invocation

\* --------------------------------------------------------------- constants
DEFAULT_PAGE_SIZE == 5

Procs == {1, 2}        \* invocation slots (independent calls of a handler)

None == <<>>
Some(v) == <<v>>
IsSome(o) == o # None
Val(o) == o[1]

\* JavaScript truthiness of an optional string / number / boolean.
TruthyStr(o) == IsSome(o) /\ Val(o) # ""
TruthyNum(o) == IsSome(o) /\ Val(o) # 0
TruthyBool(o) == o = Some(TRUE)

OpNames == {"odataQuery", "createCustomer", "getEntityCount", "createSalesOrder"}

\* ------------------------------------------------------ Gateway results
\* The results makeApiCall may resolve to: a text-bearing success, a
\* text-bearing failure, and a failure whose content carries no text item.
TextItem(t) == [type |-> "text", text |-> t]

GatewayResults ==
    { [isError |-> Some(FALSE), content |-> << TextItem(<<"body">>) >>],
      [isError |-> Some(TRUE),  content |-> << TextItem(<<"backend error">>) >>],
      [isError |-> Some(TRUE),  content |-> << >>] }

\* The value an invocation's handler promise settles to: a returned tool
\* result, or a rejection (an exception that left the handler).
Returned(r) == [thrown |-> FALSE, isError |-> r.isError, content |-> r.content]
Thrown == [thrown |-> TRUE, isError |-> None, content |-> << >>]
Pending == [thrown |-> FALSE, isError |-> None, content |-> << <<"pending">> >>]

\* -------------------------------------------------------- entity registry
\* The canonical names the EntityManager holds, the raw names a caller
\* passes, and what `await entityManager.findBestMatch(raw)` may resolve to:
\* a canonical name, or null (None) when nothing matches.
Registry == {"CustomersV3", "ReleasedProductsV2"}
RawNames == {"CustomersV3", "CustomerV3", "Qzx"}
MatchResults == {None} \cup { Some(r) : r \in Registry }

\* ------------------------------------------------------------ environment
\* process.env.DYNAMICS_RESOURCE_URL: an absolute base URL, or not set.
EnvValues == {Some("https://d365.example"), None}

\* `${process.env.DYNAMICS_RESOURCE_URL}/data/${path}` : an unset variable
\* interpolates as the text "undefined".
UrlString(env, path) ==
    << (IF IsSome(env) THEN Val(env) ELSE "undefined"), "/data/", path >>

\* new URL(s): throws TypeError unless s is an absolute URL.
NewURLThrows(s) == s[1] = "undefined"

\* ---------------------------------------------------------- notifications
\* safeNotification: await context.sendNotification inside try/catch; the
\* catch logs and swallows, so the returned promise always resolves.
safeNotificationNoCatch(delivered) == IF delivered THEN "resolved" ELSE "rejected"

safeNotification(delivered) == "resolved"

Message(level, data) ==
    [type |-> "notify", method |-> "notifications/message",
     level |-> level, data |-> data]

Progress == [type |-> "notify", method |-> "notifications/progress",
             level |-> "info", data |-> <<"progress">>]

VARIABLES
    env,             \* process.env.DYNAMICS_RESOURCE_URL
    op,              \* op[p]: the tool invoked in slot p, or "none"
    args,            \* args[p]: the validated arguments of the invocation
    pc,              \* pc[p]: the await point / step the invocation is at
    correctedEntity, \* correctedEntity[p]: what findBestMatch resolved to
    i,               \* i[p]: loop variable of createSalesOrder
    perLineResults,  \* perLineResults[p]: the array of line 307
    outstanding,     \* outstanding[p]: Gateway calls issued and not yet settled
    events,          \* events[p]: what the invocation did, in order
    nProgress,       \* nProgress[p]: progress notifications relayed so far
    logged,          \* logged[p]: 'Notification failed' was written to the log
    cancelled,       \* cancelled[p]: phase in which context.signal aborted
    result           \* result[p]: what the handler promise settled to

vars == << env, op, args, pc, correctedEntity, i, perLineResults, outstanding, events,
           nProgress, logged, cancelled, result >>

\* ----------------------------------------------------- event log helpers
IsIssue(e) == e.type = "gwIssue"
IsReturn(e) == e.type = "gwReturn"
IsNotify(e) == e.type = "notify"

GwIssues(p) == SelectSeq(events[p], IsIssue)
GwReturns(p) == SelectSeq(events[p], IsReturn)
Notifs(p) == SelectSeq(events[p], IsNotify)

IssueEvent(method, target, url, body, line) ==
    [type |-> "gwIssue", method |-> method, target |-> target,
     url |-> url, body |-> body, line |-> line]

ReturnEvent(res) == [type |-> "gwReturn", res |-> res]

\* ------------------------------------------------------------ await steps
\* The handler settles: pc done, result recorded.
Settle(p, r) ==
    /\ pc' = [pc EXCEPT ![p] = "done"]
    /\ result' = [result EXCEPT ![p] = r]

Goto(p, next) ==
    /\ pc' = [pc EXCEPT ![p] = next]
    /\ UNCHANGED result

\* await safeNotification(context, n): one delivery attempt; the handler
\* resumes at `next` when the promise resolves and throws when it rejects.
Emit(p, n, delivered, next) ==
    /\ events' = [events EXCEPT ![p] = Append(@, n)]
    /\ logged' = [logged EXCEPT ![p] = @ \/ ~delivered]
    /\ IF safeNotification(delivered) = "rejected"
       THEN Settle(p, Thrown)
       ELSE Goto(p, next)

\* ------------------------------------------------------- createSalesOrder
SalesOrderNumbers == {None, Some(""), Some("SO-1")}

\* The k-th input line (k = 1..): SiteId absent, non-empty or empty in turn.
InputLine(k) ==
    [ItemNumber |-> <<"item", k>>, OrderedSalesQuantity |-> k,
     SiteId |-> CASE k % 3 = 1 -> None
                  [] k % 3 = 2 -> Some("1")
                  [] OTHER -> Some("")]

\* Arguments admitted by createSalesOrderSchema (lines: .min(1)).
SalesOrderArgs ==
    { [header |-> [dataAreaId |-> "usmf",
                   RequestedShippingDate |-> "2025-10-20",
                   CustomerAccount |-> "US-001",
                   SalesOrderNumber |-> son],
       lines |-> [k \in 1..n |-> InputLine(k)]] :
      son \in SalesOrderNumbers, n \in 1..MaxLines }

\* callAndGetText: first content item if it is a text item, else the
\* JSON text of the whole result.
TextOf(res) ==
    IF Len(res.content) > 0 /\ res.content[1].type = "text"
    THEN res.content[1].text
    ELSE <<"json", res>>

\* 1) header payload; SalesOrderNumber only when truthy.
HeaderPayload(header) ==
    [dataAreaId |-> header.dataAreaId,
     RequestedShippingDate |-> header.RequestedShippingDate,
     CustomerAccount |-> header.CustomerAccount,
     SalesOrderNumber |-> IF TruthyStr(header.SalesOrderNumber)
                          THEN header.SalesOrderNumber ELSE None]

CreatingHeaderNote(header) ==
    Message("info",
            << "Creating sales order header",
               IF TruthyStr(header.SalesOrderNumber)
               THEN <<": ", Val(header.SalesOrderNumber)>> ELSE <<>> >>)

\* if ((headerRes as any).isError)
headerFailedNever(res) == FALSE

headerFailed(res) == TruthyBool(res.isError)

HeaderErrorResult(headerText) ==
    [thrown |-> FALSE, isError |-> Some(TRUE),
     content |-> << TextItem(<<"Failed to create Sales Order header.", headerText>>) >>]

HeaderCreatedNote(lines) ==
    Message("info", <<"Header created. Creating ", Len(lines), " line(s)...">>)

\* for (let i = 0; i < lines.length; i++)
LoopConditionStopOnFailure(idx, lines, recorded) ==
    /\ idx < Len(lines)
    /\ \A k \in 1..Len(recorded) : recorded[k].ok

LoopCondition(idx, lines, recorded) == idx < Len(lines)

LinePayload(header, line) ==
    [dataAreaId |-> header.dataAreaId,
     SalesOrderNumber |-> header.SalesOrderNumber,
     ItemNumber |-> line.ItemNumber,
     OrderedSalesQuantity |-> line.OrderedSalesQuantity,
     SiteId |-> IF TruthyStr(line.SiteId) THEN line.SiteId ELSE None]

\* const ok = !(res as any).isError; perLineResults.push({index, ok, message})
PerLineEntryOneBased(idx, res) ==
    LET ok == ~TruthyBool(res.isError)
    IN [index |-> idx + 1, ok |-> ok,
        message |-> IF ok THEN <<"Line", idx + 1, "created.">>
                    ELSE <<"Line", idx + 1, "failed.", TextOf(res)>>]

PerLineEntry(idx, res) ==
    LET ok == ~TruthyBool(res.isError)
    IN [index |-> idx, ok |-> ok,
        message |-> IF ok THEN <<"Line", idx + 1, "created.">>
                    ELSE <<"Line", idx + 1, "failed.", TextOf(res)>>]

LineNoteAlwaysInfo(entry) == Message("info", entry.message)

LineNote(entry) ==
    Message(IF entry.ok THEN "info" ELSE "error", entry.message)

\* 4) summary: header.SalesOrderNumber ?? '(auto-assigned)'
Summary(header, recorded) ==
    [header |-> [SalesOrderNumber |-> IF IsSome(header.SalesOrderNumber)
                                      THEN Val(header.SalesOrderNumber)
                                      ELSE "(auto-assigned)",
                 created |-> TRUE],
     lines |-> recorded]

\* The returned object literal has a content key only; JSON.stringify of
\* the summary (strings, numbers, booleans) is carried as the summary.
SummaryResultEscalating(header, recorded) ==
    [thrown |-> FALSE,
     isError |-> IF \E k \in 1..Len(recorded) : ~recorded[k].ok
                 THEN Some(TRUE) ELSE None,
     content |-> << TextItem(<<"Sales order creation summary:",
                               Summary(header, recorded),
                               "Tip: If any line failed, re-run with only failed items.">>) >>]

SummaryResult(header, recorded) ==
    [thrown |-> FALSE, isError |-> None,
     content |-> << TextItem(<<"Sales order creation summary:",
                               Summary(header, recorded),
                               "Tip: If any line failed, re-run with only failed items.">>) >>]

IsSO(p) == op[p] = "createSalesOrder"

NextCall(p) == Len(GwIssues(p)) + 1

\* lines 275-288: build the header payload, announce the header step.
SOStart(p) ==
    /\ IsSO(p) /\ pc[p] = "start"
    /\ \E delivered \in BOOLEAN :
          Emit(p, CreatingHeaderNote(args[p].header), delivered, "so_header")
    /\ UNCHANGED << env, op, args, correctedEntity, i, perLineResults, outstanding,
                    nProgress, cancelled >>

\* lines 291-292: POST the header; the handler awaits the call.
SOIssueHeader(p) ==
    /\ IsSO(p) /\ pc[p] = "so_header"
    /\ events' = [events EXCEPT ![p] =
          Append(@, IssueEvent("POST", "SalesOrderHeadersV4",
                               UrlString(env, "SalesOrderHeadersV4"),
                               HeaderPayload(args[p].header), None))]
    /\ outstanding' = [outstanding EXCEPT ![p] = @ \cup {NextCall(p)}]
    /\ Goto(p, "so_header_await")
    /\ UNCHANGED << env, op, args, correctedEntity, i, perLineResults, nProgress, logged,
                    cancelled >>

\* lines 292-298: the header call settles; a failure ends the workflow.
SOReturnHeader(p) ==
    /\ IsSO(p) /\ pc[p] = "so_header_await"
    /\ \E c \in outstanding[p], res \in GatewayResults :
          /\ outstanding' = [outstanding EXCEPT ![p] = @ \ {c}]
          /\ events' = [events EXCEPT ![p] = Append(@, ReturnEvent(res))]
          /\ IF headerFailed(res)
             THEN Settle(p, HeaderErrorResult(TextOf(res)))
             ELSE Goto(p, "so_header_created")
    /\ UNCHANGED << env, op, args, correctedEntity, i, perLineResults, nProgress, logged,
                    cancelled >>

\* lines 300-309: announce the header, start the loop with an empty array.
SONotifyHeader(p) ==
    /\ IsSO(p) /\ pc[p] = "so_header_created"
    /\ \E delivered \in BOOLEAN :
          Emit(p, HeaderCreatedNote(args[p].lines), delivered, "so_loop")
    /\ i' = [i EXCEPT ![p] = 0]
    /\ perLineResults' = [perLineResults EXCEPT ![p] = << >>]
    /\ UNCHANGED << env, op, args, correctedEntity, outstanding, nProgress, cancelled >>

\* lines 309-328 without the await of line 269: the call is fired and the
\* loop moves on to the next line at once.
SOIssueLineNoAwait(p) ==
    /\ IsSO(p) /\ pc[p] = "so_loop"
    /\ LoopCondition(i[p], args[p].lines, perLineResults[p])
    /\ events' = [events EXCEPT ![p] =
          Append(@, IssueEvent("POST", "SalesOrderLinesV3",
                               UrlString(env, "SalesOrderLinesV3"),
                               LinePayload(args[p].header, args[p].lines[i[p] + 1]),
                               Some(i[p])))]
    /\ outstanding' = [outstanding EXCEPT ![p] = @ \cup {NextCall(p)}]
    /\ i' = [i EXCEPT ![p] = @ + 1]
    /\ Goto(p, "so_loop")
    /\ UNCHANGED << env, op, args, correctedEntity, perLineResults, nProgress, logged,
                    cancelled >>

\* lines 309-328: loop test, line payload, POST the line and await it.
SOIssueLine(p) ==
    /\ IsSO(p) /\ pc[p] = "so_loop"
    /\ LoopCondition(i[p], args[p].lines, perLineResults[p])
    /\ events' = [events EXCEPT ![p] =
          Append(@, IssueEvent("POST", "SalesOrderLinesV3",
                               UrlString(env, "SalesOrderLinesV3"),
                               LinePayload(args[p].header, args[p].lines[i[p] + 1]),
                               Some(i[p])))]
    /\ outstanding' = [outstanding EXCEPT ![p] = @ \cup {NextCall(p)}]
    /\ Goto(p, "so_line_await")
    /\ UNCHANGED << env, op, args, correctedEntity, i, perLineResults, nProgress, logged,
                    cancelled >>

\* lines 328-334 with perLineResults declared at module level instead of
\* inside the handler: every invocation pushes to the one array.
SOReturnLineShared(p) ==
    /\ IsSO(p) /\ pc[p] = "so_line_await"
    /\ \E c \in outstanding[p], res \in GatewayResults :
          /\ outstanding' = [outstanding EXCEPT ![p] = @ \ {c}]
          /\ events' = [events EXCEPT ![p] = Append(@, ReturnEvent(res))]
          /\ perLineResults' = [q \in Procs |->
                Append(perLineResults[q], PerLineEntry(i[p], res))]
    /\ Goto(p, "so_line_notify")
    /\ UNCHANGED << env, op, args, correctedEntity, i, nProgress, logged, cancelled >>

\* lines 328-334: the line call settles; its outcome is recorded.
SOReturnLine(p) ==
    /\ IsSO(p) /\ pc[p] = "so_line_await"
    /\ \E c \in outstanding[p], res \in GatewayResults :
          /\ outstanding' = [outstanding EXCEPT ![p] = @ \ {c}]
          /\ events' = [events EXCEPT ![p] = Append(@, ReturnEvent(res))]
          /\ perLineResults' = [perLineResults EXCEPT ![p] =
                Append(@, PerLineEntry(i[p], res))]
    /\ Goto(p, "so_line_notify")
    /\ UNCHANGED << env, op, args, correctedEntity, i, nProgress, logged, cancelled >>

\* lines 336-340: announce the line outcome, then i++.
SONotifyLine(p) ==
    /\ IsSO(p) /\ pc[p] = "so_line_notify"
    /\ \E delivered \in BOOLEAN :
          Emit(p, LineNote(perLineResults[p][Len(perLineResults[p])]),
               delivered, "so_loop")
    /\ i' = [i EXCEPT ![p] = @ + 1]
    /\ UNCHANGED << env, op, args, correctedEntity, perLineResults, outstanding, nProgress,
                    cancelled >>

\* lines 342-356 reached without the loop having run to its end.
SOSummarizeEarly(p) ==
    /\ IsSO(p) /\ pc[p] = "so_loop"
    /\ Settle(p, SummaryResult(args[p].header, perLineResults[p]))
    /\ UNCHANGED << env, op, args, correctedEntity, i, perLineResults, outstanding, events,
                    nProgress, logged, cancelled >>

\* lines 342-356: the loop is over; return the summary.
SOSummarize(p) ==
    /\ IsSO(p) /\ pc[p] = "so_loop"
    /\ ~LoopCondition(i[p], args[p].lines, perLineResults[p])
    /\ Settle(p, SummaryResult(args[p].header, perLineResults[p]))
    /\ UNCHANGED << env, op, args, correctedEntity, i, perLineResults, outstanding, events,
                    nProgress, logged, cancelled >>

\* ------------------------------------------------------------- odataQuery
\* filter: Record<string,string> as its entries in insertion order.
FilterChoices ==
    { None,
      Some(<< >>),
      Some(<< <<"dataAreaId", "usmf">> >>),
      Some(<< <<"ProductNumber", "D0001">>, <<"dataAreaId", "usmf">> >>),
      Some(<< <<"dataAreaId", "">> >>),
      Some(<< <<"Name", "x">>, <<"10", "a">>, <<"2", "b">> >>) }

\* (top, skip, select, expand) profiles of a request.
PageChoices ==
    { <<None, None, None, None>>,
      <<Some(0), Some(0), Some(""), Some("")>>,
      <<Some(10), Some(10), Some("CustomerAccount"), Some("Lines")>>,
      <<Some(-1), Some(-1), None, Some("Lines")>> }

CrossCompanyChoices == {None, Some(TRUE), Some(FALSE)}

\* Arguments admitted by odataQuerySchema.
QueryArgs ==
    { [entity |-> e, select |-> pg[3], filter |-> f, expand |-> pg[4],
       top |-> pg[1], skip |-> pg[2], crossCompany |-> cc] :
      e \in RawNames, f \in FilterChoices, pg \in PageChoices,
      cc \in CrossCompanyChoices }

\* filterObject[key], undefined (None) when the object or the key is absent.
FilterGet(filter, key) ==
    IF filter = None THEN None
    ELSE LET hits == { k \in 1..Len(Val(filter)) : Val(filter)[k][1] = key }
         IN IF hits = {} THEN None
            ELSE Some(Val(filter)[CHOOSE k \in hits : TRUE][2])

\* The numeric value of a key that is a canonical array index ("2", "10"),
\* None for any other key.
ArrayIndex(key) ==
    CASE key = "1" -> Some(1)
      [] key = "2" -> Some(2)
      [] key = "10" -> Some(10)
      [] OTHER -> None

RECURSIVE AscendingIndexEntries(_)
AscendingIndexEntries(entrySet) ==
    IF entrySet = {} THEN << >>
    ELSE LET least == CHOOSE e \in entrySet :
                         \A f \in entrySet :
                            Val(ArrayIndex(e[1])) <= Val(ArrayIndex(f[1]))
         IN << least >> \o AscendingIndexEntries(entrySet \ {least})

\* Object.entries(filterObject) with the keys in insertion order.
ObjectEntriesInsertionOrder(entries) == entries

\* Object.entries(filterObject): own keys that are array indices first, in
\* ascending numeric order, then the other keys in insertion order.
ObjectEntries(entries) ==
    AscendingIndexEntries({ entries[k] : k \in { n \in 1..Len(entries) :
                                IsSome(ArrayIndex(entries[n][1])) } })
    \o SelectSeq(entries, LAMBDA kv : ~IsSome(ArrayIndex(kv[1])))

RECURSIVE JoinClauses(_)
JoinClauses(entries) ==
    IF Len(entries) = 0 THEN << >>
    ELSE LET clause == << entries[1][1], " eq '", entries[1][2], "'" >>
         IN IF Len(entries) = 1 THEN clause
            ELSE clause \o << " and " >> \o JoinClauses(Tail(entries))

\* buildFilterString: null for an absent or empty object, else the clauses
\* `${key} eq '${value}'` joined by ' and '.
buildFilterString(filterObject) ==
    IF filterObject = None \/ Len(Val(filterObject)) = 0 THEN None
    ELSE Some(JoinClauses(ObjectEntries(Val(filterObject))))

\* if (effectiveArgs.filter?.dataAreaId && effectiveArgs.crossCompany !== false)
Escalates(a) ==
    /\ TruthyStr(FilterGet(a.filter, "dataAreaId"))
    /\ a.crossCompany # Some(FALSE)

\* effectiveArgs after lines 121-131.
EffectiveArgs(a) ==
    IF Escalates(a) THEN [a EXCEPT !.crossCompany = Some(TRUE)] ELSE a

\* if (!correctedEntity)
notFoundNever(corrected) == FALSE

notFound(corrected) == ~TruthyStr(corrected)

NotFoundResult(raw) ==
    [thrown |-> FALSE, isError |-> Some(TRUE),
     content |-> << TextItem(<<"Could not find a matching entity for '", raw,
                              "'. Please provide a more specific name.">>) >>]

\* `${correctedEntity}` in a template string.
Interpolate(o) == IF IsSome(o) THEN Val(o) ELSE "null"

EscalationNote ==
    Message("info", <<"Filter on company ('dataAreaId') detected. Automatically enabling cross-company search.">>)

CorrectedNote(raw, corrected) ==
    Message("info", <<"Corrected entity name from '", raw, "' to '",
                      Interpolate(corrected), "'.">>)

\* the entity set of `${process.env.DYNAMICS_RESOURCE_URL}/data/${correctedEntity}`
RequestTargetRaw(raw, corrected) == raw

RequestTarget(raw, corrected) == Interpolate(corrected)

\* url.searchParams after lines 142-153, as <<name, value>> in append order.
SearchParams(q) ==
    LET filterString == buildFilterString(q.filter)
        topValue == IF TruthyNum(q.top) THEN Val(q.top) ELSE DEFAULT_PAGE_SIZE
    IN << <<"$top", topValue>> >>
       \o (IF TruthyNum(q.skip) THEN << <<"$skip", Val(q.skip)>> >> ELSE << >>)
       \o (IF TruthyBool(q.crossCompany) THEN << <<"cross-company", "true">> >> ELSE << >>)
       \o (IF TruthyStr(q.select) THEN << <<"$select", Val(q.select)>> >> ELSE << >>)
       \o (IF IsSome(filterString) /\ Val(filterString) # << >>
           THEN << <<"$filter", Val(filterString)>> >> ELSE << >>)
       \o (IF TruthyStr(q.expand) THEN << <<"$expand", Val(q.expand)>> >> ELSE << >>)

Url(base, params) == [base |-> base, params |-> params]

IsOQ(p) == op[p] = "odataQuery"

ResolveEvent(raw, corrected) ==
    [type |-> "resolve", raw |-> raw, corrected |-> corrected]

\* lines 112-131: resolve the entity; no match ends the operation.
OQResolve(p) ==
    /\ IsOQ(p) /\ pc[p] = "start"
    /\ \E m \in MatchResults :
          /\ correctedEntity' = [correctedEntity EXCEPT ![p] = m]
          /\ events' = [events EXCEPT ![p] =
                Append(@, ResolveEvent(args[p].entity, m))]
          /\ IF notFound(m)
             THEN Settle(p, NotFoundResult(args[p].entity))
             ELSE IF Escalates(args[p]) /\ ~TruthyBool(args[p].crossCompany)
                  THEN Goto(p, "oq_notify_escalation")
                  ELSE Goto(p, "oq_notify_corrected")
    /\ UNCHANGED << env, op, args, i, perLineResults, outstanding,
                    nProgress, logged, cancelled >>

\* lines 125-128: announce the automatic cross-company escalation.
OQNotifyEscalation(p) ==
    /\ IsOQ(p) /\ pc[p] = "oq_notify_escalation"
    /\ \E delivered \in BOOLEAN :
          Emit(p, EscalationNote, delivered, "oq_notify_corrected")
    /\ UNCHANGED << env, op, args, correctedEntity, i, perLineResults, outstanding,
                    nProgress, cancelled >>

\* lines 133-136: announce the entity name used.
OQNotifyCorrected(p) ==
    /\ IsOQ(p) /\ pc[p] = "oq_notify_corrected"
    /\ \E delivered \in BOOLEAN :
          Emit(p, CorrectedNote(args[p].entity, correctedEntity[p]), delivered,
               "oq_build")
    /\ UNCHANGED << env, op, args, correctedEntity, i, perLineResults, outstanding,
                    nProgress, cancelled >>

\* lines 138-155: build the URL (new URL may throw) and issue the GET.
OQIssue(p) ==
    /\ IsOQ(p) /\ pc[p] = "oq_build"
    /\ LET target == RequestTarget(args[p].entity, correctedEntity[p])
           base == UrlString(env, target)
       IN IF NewURLThrows(base)
          THEN /\ Settle(p, Thrown)
               /\ UNCHANGED << events, outstanding >>
          ELSE /\ events' = [events EXCEPT ![p] =
                     Append(@, IssueEvent("GET", target,
                                Url(base, SearchParams(EffectiveArgs(args[p]))),
                                None, None))]
               /\ outstanding' = [outstanding EXCEPT ![p] = @ \cup {NextCall(p)}]
               /\ Goto(p, "pass_await")
    /\ UNCHANGED << env, op, args, correctedEntity, i, perLineResults, nProgress, logged,
                    cancelled >>

\* ------------------------------------------------------ direct operations
CustomerArgs == { [customerData |-> <<"customer", "PM-001">>] }

CountArgs == { [entity |-> e, crossCompany |-> cc] :
               e \in {"CustomersV3", "Qzx"}, cc \in {None, Some(TRUE)} }

\* createCustomer (lines 165-170); createSystemUser, assignUserRole,
\* updateCustomer, updatePositionHierarchy, action_initializeDataManagement
\* and getODataMetadata have the same shape: a template-string URL and one
\* makeApiCall whose result is returned.
CreateCustomerIssue(p) ==
    /\ op[p] = "createCustomer" /\ pc[p] = "start"
    /\ events' = [events EXCEPT ![p] =
          Append(@, IssueEvent("POST", "CustomersV3",
                               UrlString(env, "CustomersV3"),
                               Some(args[p].customerData), None))]
    /\ outstanding' = [outstanding EXCEPT ![p] = @ \cup {NextCall(p)}]
    /\ Goto(p, "pass_await")
    /\ UNCHANGED << env, op, args, correctedEntity, i, perLineResults, nProgress, logged,
                    cancelled >>

\* getEntityCount (lines 189-195): new URL of the raw entity name.
GetEntityCountIssue(p) ==
    /\ op[p] = "getEntityCount" /\ pc[p] = "start"
    /\ LET base == UrlString(env, <<args[p].entity, "/$count">>)
       IN IF NewURLThrows(base)
          THEN /\ Settle(p, Thrown)
               /\ UNCHANGED << events, outstanding >>
          ELSE /\ events' = [events EXCEPT ![p] =
                     Append(@, IssueEvent("GET", args[p].entity,
                        Url(base, IF TruthyBool(args[p].crossCompany)
                                  THEN << <<"cross-company", "true">> >>
                                  ELSE << >>),
                        None, None))]
               /\ outstanding' = [outstanding EXCEPT ![p] = @ \cup {NextCall(p)}]
               /\ Goto(p, "pass_await")
    /\ UNCHANGED << env, op, args, correctedEntity, i, perLineResults, nProgress, logged,
                    cancelled >>

\* return makeApiCall(...): the Gateway result is the operation's result.
PassReturn(p) ==
    /\ pc[p] = "pass_await"
    /\ \E c \in outstanding[p], res \in GatewayResults :
          /\ outstanding' = [outstanding EXCEPT ![p] = @ \ {c}]
          /\ events' = [events EXCEPT ![p] = Append(@, ReturnEvent(res))]
          /\ Settle(p, Returned(res))
    /\ UNCHANGED << env, op, args, correctedEntity, i, perLineResults, nProgress, logged,
                    cancelled >>

\* ------------------------------------------------------------ environment
AwaitingGateway(p) == pc[p] \in {"so_header_await", "so_line_await", "pass_await"}

\* The notifier callback handed to makeApiCall: the Gateway relays a
\* progress notification while its call is in flight.
GwProgress(p) ==
    /\ AwaitingGateway(p)
    /\ nProgress[p] < MaxProgress
    /\ nProgress' = [nProgress EXCEPT ![p] = @ + 1]
    /\ \E delivered \in BOOLEAN : Emit(p, Progress, delivered, pc[p])
    /\ UNCHANGED << env, op, args, correctedEntity, i, perLineResults, outstanding, cancelled >>

InLineLoop(p) ==
    IsSO(p) /\ pc[p] \in {"so_loop", "so_line_await", "so_line_notify"}

\* context.signal aborts (the caller cancels the request); no handler
\* reads the signal.
Cancel(p) ==
    /\ pc[p] \notin {"off", "done"}
    /\ cancelled[p] = "no"
    /\ cancelled' = [cancelled EXCEPT ![p] =
          IF InLineLoop(p) THEN "loop" ELSE "early"]
    /\ UNCHANGED << env, op, args, correctedEntity, pc, i, perLineResults,
                    outstanding, events, nProgress, logged, result >>

\* ---------------------------------------------------------- specification
ArgsOf(o) ==
    CASE o = "odataQuery" -> QueryArgs
      [] o = "createCustomer" -> CustomerArgs
      [] o = "getEntityCount" -> CountArgs
      [] o = "createSalesOrder" -> SalesOrderArgs

NoArgs == [none |-> TRUE]

\* One invocation of one tool (slot 1); slot 2 is not used.
Init ==
    /\ env \in EnvValues
    /\ \E o \in OpNames : \E a \in ArgsOf(o) :
          /\ op = [p \in Procs |-> IF p = 1 THEN o ELSE "none"]
          /\ args = [p \in Procs |-> IF p = 1 THEN a ELSE NoArgs]
    /\ pc = [p \in Procs |-> IF p = 1 THEN "start" ELSE "off"]
    /\ correctedEntity = [p \in Procs |-> None]
    /\ i = [p \in Procs |-> 0]
    /\ perLineResults = [p \in Procs |-> << >>]
    /\ outstanding = [p \in Procs |-> {}]
    /\ events = [p \in Procs |-> << >>]
    /\ nProgress = [p \in Procs |-> 0]
    /\ logged = [p \in Procs |-> FALSE]
    /\ cancelled = [p \in Procs |-> "no"]
    /\ result = [p \in Procs |-> Pending]

Next ==
    \E p \in Procs :
       \/ SOStart(p)
       \/ SOIssueHeader(p)
       \/ SOReturnHeader(p)
       \/ SONotifyHeader(p)
       \/ SOIssueLine(p)
       \/ SOReturnLine(p)
       \/ SONotifyLine(p)
       \/ SOSummarize(p)
       \/ OQResolve(p)
       \/ OQNotifyEscalation(p)
       \/ OQNotifyCorrected(p)
       \/ OQIssue(p)
       \/ CreateCustomerIssue(p)
       \/ GetEntityCountIssue(p)
       \/ PassReturn(p)
       \/ GwProgress(p)
       \/ Cancel(p)

Spec == Init /\ [][Next]_vars

\* One step of a createSalesOrder invocation.
SOStep(p) ==
    \/ SOStart(p)
    \/ SOIssueHeader(p)
    \/ SOReturnHeader(p)
    \/ SONotifyHeader(p)
    \/ SOIssueLine(p)
    \/ SOReturnLine(p)
    \/ SONotifyLine(p)
    \/ SOSummarize(p)

\* Two createSalesOrder invocations in flight at once (the server handles
\* requests concurrently; handlers interleave at their await points).
InitConc ==
    /\ env = Some("https://d365.example")
    /\ op = [p \in Procs |-> "createSalesOrder"]
    /\ args \in [Procs -> SalesOrderArgs]
    /\ pc = [p \in Procs |-> "start"]
    /\ correctedEntity = [p \in Procs |-> None]
    /\ i = [p \in Procs |-> 0]
    /\ perLineResults = [p \in Procs |-> << >>]
    /\ outstanding = [p \in Procs |-> {}]
    /\ events = [p \in Procs |-> << >>]
    /\ nProgress = [p \in Procs |-> 0]
    /\ logged = [p \in Procs |-> FALSE]
    /\ cancelled = [p \in Procs |-> "no"]
    /\ result = [p \in Procs |-> Pending]

NextConc == \E p \in Procs : SOStep(p)

SpecConc == InitConc /\ [][NextConc]_vars

\* Every Gateway call and every notification attempt eventually settles and
\* the event loop resumes a handler whose awaited promise has settled.
SpecLive == Spec /\ \A p \in Procs : WF_vars(SOStep(p))

\* ================================================================ claims
Done(p) == pc[p] = "done"

IsLineIssue(e) == e.type = "gwIssue" /\ IsSome(e.line)

LineIssues(p) == SelectSeq(events[p], IsLineIssue)

\* The header call of invocation p has settled / settled without error.
HeaderSettled(p) == IsSO(p) /\ Len(GwReturns(p)) >= 1

HeaderFailedAt(p) == HeaderSettled(p) /\ GwReturns(p)[1].res.isError = Some(TRUE)

HeaderSucceededAt(p) == HeaderSettled(p) /\ GwReturns(p)[1].res.isError # Some(TRUE)

\* The Gateway result of the call for input line k (k = 1..), once settled.
LineReturn(p, k) == GwReturns(p)[k + 1].res

\* The failure detail a Gateway result carries: its first text item, or
\* the result itself when it has none.
FailureDetail(res) ==
    IF res.content # << >> THEN res.content[1].text ELSE <<"json", res>>

\* The lines array of a returned summary.
ReturnedLines(p) == result[p].content[1].text[2].lines

\* C1: when the header Gateway call returns isError = true, createSalesOrder
\* returns an isError = true result carrying the header failure text, issues
\* no line Gateway call and records no per-line outcome, whatever the lines.
C1_HeaderFailureShortCircuits ==
    \A p \in Procs :
       HeaderFailedAt(p) =>
          /\ Done(p)
          /\ ~result[p].thrown
          /\ result[p].isError = Some(TRUE)
          /\ Len(result[p].content) = 1
          /\ result[p].content[1].type = "text"
          /\ result[p].content[1].text[2] = FailureDetail(GwReturns(p)[1].res)
          /\ Len(GwIssues(p)) = 1
          /\ LineIssues(p) = << >>
          /\ perLineResults[p] = << >>

C1_Witness ==
    \E p \in Procs :
       /\ HeaderFailedAt(p) /\ Done(p)
       /\ Len(args[p].lines) = MaxLines

\* C2: after a successful header call every input line gets exactly one
\* Gateway call, in input order, whether or not earlier lines failed.
C2_AllLinesAttempted ==
    \A p \in Procs :
       IsSO(p) =>
          /\ Len(LineIssues(p)) <= Len(args[p].lines)
          /\ \A k \in 1..Len(LineIssues(p)) :
                /\ LineIssues(p)[k].line = Some(k - 1)
                /\ LineIssues(p)[k].body.ItemNumber = args[p].lines[k].ItemNumber
          /\ (Done(p) /\ HeaderSucceededAt(p)) =>
                Len(LineIssues(p)) = Len(args[p].lines)

C2_Witness ==
    \E p \in Procs :
       /\ IsSO(p) /\ Done(p) /\ HeaderSucceededAt(p)
       /\ Len(args[p].lines) = MaxLines
       /\ LineReturn(p, 1).isError = Some(TRUE)
       /\ Len(LineIssues(p)) = MaxLines

\* C3: the summary returned after the line loop never has isError = true,
\* whatever the line outcomes; failed lines show as ok = FALSE entries.
C3_SummaryNeverError ==
    \A p \in Procs :
       (Done(p) /\ HeaderSucceededAt(p)) =>
          /\ ~result[p].thrown
          /\ result[p].isError # Some(TRUE)
          /\ \A k \in 1..Len(args[p].lines) :
                LineReturn(p, k).isError = Some(TRUE) => ~ReturnedLines(p)[k].ok

C3_Witness ==
    \E p \in Procs :
       /\ Done(p) /\ HeaderSucceededAt(p)
       /\ Len(args[p].lines) = MaxLines
       /\ \A k \in 1..Len(args[p].lines) : LineReturn(p, k).isError = Some(TRUE)

IsPrefix(s, t) == Len(s) <= Len(t) /\ SubSeq(t, 1, Len(s)) = s

\* The recorded outcomes agree, position by position, with the settled
\* line calls; a returned summary lists one entry per input line.
LinesMatchCalls(p) ==
    /\ Len(perLineResults[p]) <= Len(args[p].lines)
    /\ HeaderSettled(p) => Len(perLineResults[p]) = Len(GwReturns(p)) - 1
    /\ \A k \in 1..Len(perLineResults[p]) :
          /\ perLineResults[p][k].index = k - 1
          /\ perLineResults[p][k].ok = (LineReturn(p, k).isError = Some(FALSE))
    /\ (Done(p) /\ HeaderSucceededAt(p)) =>
          /\ ReturnedLines(p) = perLineResults[p]
          /\ Len(ReturnedLines(p)) = Len(args[p].lines)

\* C4: with a successful header the returned lines have one entry per input
\* line, entry i has index i and ok exactly when line i's call returned
\* isError = false; the recorded sequence only ever grows by appending.
C4_WorkflowResultInvariant ==
    /\ [](\A p \in Procs : IsSO(p) => LinesMatchCalls(p))
    /\ [][\A p \in Procs : IsPrefix(perLineResults[p], perLineResults'[p])]_vars

C4_Witness ==
    \E p \in Procs :
       /\ Done(p) /\ HeaderSucceededAt(p)
       /\ Len(args[p].lines) = 2
       /\ ReturnedLines(p)[1].index = 0 /\ ReturnedLines(p)[1].ok
       /\ ReturnedLines(p)[2].index = 1 /\ ~ReturnedLines(p)[2].ok

\* Number of events of a kind among the first n events of p.
CountBefore(p, n, Kind(_)) ==
    Len(SelectSeq(SubSeq(events[p], 1, n), Kind))

\* C5: the Gateway calls of one createSalesOrder invocation are strictly
\* sequential: at most one is outstanding, and a call is issued only after
\* every earlier call of the invocation (header, then line i) has returned.
C5_StrictlySequential ==
    \A p \in Procs :
       IsSO(p) =>
          /\ Cardinality(outstanding[p]) <= 1
          /\ \A j \in 1..Len(events[p]) :
                IsIssue(events[p][j]) =>
                   CountBefore(p, j - 1, IsReturn) = CountBefore(p, j - 1, IsIssue)

C5_Witness ==
    \E p \in Procs :
       /\ IsSO(p) /\ pc[p] = "so_line_await"
       /\ i[p] = 1
       /\ outstanding[p] = {3}

\* C6: no exception escapes an operation boundary: every invocation that
\* has settled returned a tool result (isError = true when a step threw),
\* it did not reject.
C6_NoExceptionEscapes ==
    \A p \in Procs : Done(p) => ~result[p].thrown

\* What the invocation does when every notification is delivered, given
\* its arguments, the environment, the resolved entity and the results the
\* Gateway returned: whether it throws, the calls it issues, its result.
ExpectedThrown(p) ==
    \/ /\ IsOQ(p) /\ ~notFound(correctedEntity[p])
       /\ NewURLThrows(UrlString(env, Interpolate(correctedEntity[p])))
    \/ /\ op[p] = "getEntityCount"
       /\ NewURLThrows(UrlString(env, <<args[p].entity, "/$count">>))

ExpectedCalls(p) ==
    LET a == args[p]
        R == GwReturns(p)
    IN CASE IsSO(p) ->
              << IssueEvent("POST", "SalesOrderHeadersV4",
                            UrlString(env, "SalesOrderHeadersV4"),
                            HeaderPayload(a.header), None) >>
              \o (IF R[1].res.isError = Some(TRUE) THEN << >>
                  ELSE [k \in 1..Len(a.lines) |->
                          IssueEvent("POST", "SalesOrderLinesV3",
                                     UrlString(env, "SalesOrderLinesV3"),
                                     LinePayload(a.header, a.lines[k]),
                                     Some(k - 1))])
         [] IsOQ(p) ->
              IF notFound(correctedEntity[p]) THEN << >>
              ELSE << IssueEvent("GET", Val(correctedEntity[p]),
                         Url(UrlString(env, Val(correctedEntity[p])),
                             SearchParams(EffectiveArgs(a))),
                         None, None) >>
         [] op[p] = "createCustomer" ->
              << IssueEvent("POST", "CustomersV3", UrlString(env, "CustomersV3"),
                            Some(a.customerData), None) >>
         [] op[p] = "getEntityCount" ->
              << IssueEvent("GET", a.entity,
                    Url(UrlString(env, <<a.entity, "/$count">>),
                        IF TruthyBool(a.crossCompany)
                        THEN << <<"cross-company", "true">> >> ELSE << >>),
                    None, None) >>

ExpectedResult(p) ==
    LET a == args[p]
        R == GwReturns(p)
    IN CASE IsSO(p) ->
              IF R[1].res.isError = Some(TRUE)
              THEN HeaderErrorResult(TextOf(R[1].res))
              ELSE SummaryResult(a.header,
                      [k \in 1..Len(a.lines) |-> PerLineEntry(k - 1, R[k + 1].res)])
         [] IsOQ(p) /\ notFound(correctedEntity[p]) -> NotFoundResult(a.entity)
         [] OTHER -> Returned(R[1].res)

\* C7: failed notification deliveries change nothing: a settled invocation
\* issued the Gateway calls and returned the result of the run in which
\* every notification is delivered, and no message is sent a second time.
C7_NotificationFailureHarmless ==
    \A p \in Procs :
       Done(p) =>
          /\ result[p].thrown = ExpectedThrown(p)
          /\ ~result[p].thrown =>
                /\ GwIssues(p) = ExpectedCalls(p)
                /\ result[p] = ExpectedResult(p)
          /\ \A j, k \in 1..Len(Notifs(p)) :
                (j < k /\ Notifs(p)[j] = Notifs(p)[k]) => Notifs(p)[j] = Progress

C7_Witness ==
    \E p \in Procs :
       /\ IsSO(p) /\ Done(p) /\ logged[p]
       /\ HeaderSucceededAt(p)
       /\ Len(args[p].lines) = MaxLines
       /\ \E k \in 1..Len(args[p].lines) : ~ReturnedLines(p)[k].ok

IssuesIn(log) == SelectSeq(log, IsIssue)

\* C8: once a cancellation signal has arrived during the line loop of
\* createSalesOrder no further Gateway call is issued, and no call ever
\* reverts (deletes or patches) the header or a created line.
C8_CancelStopsLineCalls ==
    /\ [](\A p \in Procs : IsSO(p) =>
            \A k \in 1..Len(GwIssues(p)) : GwIssues(p)[k].method = "POST")
    /\ [][\A p \in Procs :
            cancelled[p] = "loop" =>
               Len(IssuesIn(events'[p])) = Len(IssuesIn(events[p]))]_vars

\* C9: when resolution finds no match odataQuery returns isError = true,
\* issues no Gateway request and emits no notification; a request is only
\* ever issued after the resolution step.
C9_NotFoundIssuesNothing ==
    \A p \in Procs :
       IsOQ(p) =>
          /\ \A j \in 1..Len(events[p]) :
                (IsIssue(events[p][j]) \/ IsNotify(events[p][j])) =>
                   /\ j > 1
                   /\ events[p][1].type = "resolve"
          /\ (events[p] # << >> /\ events[p][1].corrected = None) =>
                /\ Done(p)
                /\ ~result[p].thrown
                /\ result[p].isError = Some(TRUE)
                /\ GwIssues(p) = << >>
                /\ Notifs(p) = << >>

C9_Witness ==
    \E p \in Procs :
       /\ IsOQ(p) /\ Done(p)
       /\ events[p][1].corrected = None
       /\ Escalates(args[p])
       /\ env # None

\* C10: when resolution maps the raw name to a different canonical name,
\* the Gateway request targets the canonical name, never the raw one, and
\* the correction notification precedes the request.
C10_CorrectedNameUsed ==
    \A p \in Procs :
       IsOQ(p) =>
          \A j \in 1..Len(events[p]) :
             LET r == events[p][1]
             IN (IsIssue(events[p][j]) /\ r.corrected # Some(r.raw)) =>
                   /\ Some(events[p][j].target) = r.corrected
                   /\ events[p][j].target # r.raw
                   /\ events[p][j].url.base[3] = Val(r.corrected)
                   /\ \E k \in 1..(j - 1) :
                         /\ IsNotify(events[p][k])
                         /\ events[p][k].data =
                               <<"Corrected entity name from '", r.raw,
                                 "' to '", Val(r.corrected), "'.">>

C10_Witness ==
    \E p \in Procs :
       /\ IsOQ(p) /\ pc[p] = "pass_await"
       /\ args[p].entity = "CustomerV3"
       /\ correctedEntity[p] = Some("CustomersV3")
       /\ Len(GwIssues(p)) = 1

\* The filter object has an own entry for key (whatever its value).
FilterHasKey(filter, key) ==
    IsSome(filter) /\ \E k \in 1..Len(Val(filter)) : Val(filter)[k][1] = key

\* The query parameters of an issued request named `name`, in order.
ParamsNamed(e, name) ==
    SelectSeq(e.url.params, LAMBDA kv : kv[1] = name)

\* The Gateway request of an odataQuery invocation, once issued.
QueryIssued(p) == IsOQ(p) /\ Len(GwIssues(p)) = 1

\* C11: a filter containing dataAreaId (any value) with crossCompany not
\* explicitly false makes the compiled query carry the cross-company flag;
\* crossCompany explicitly false never emits the flag.
C11_CrossCompanyEscalation ==
    \A p \in Procs :
       QueryIssued(p) =>
          LET e == GwIssues(p)[1]
          IN /\ (FilterHasKey(args[p].filter, "dataAreaId")
                   /\ args[p].crossCompany # Some(FALSE))
                   => ParamsNamed(e, "cross-company") = << <<"cross-company", "true">> >>
             /\ args[p].crossCompany = Some(FALSE)
                   => ParamsNamed(e, "cross-company") = << >>

\* C12: $skip is emitted only when skip is present and greater than zero,
\* and then carries the given skip.
C12_SkipOnlyWhenPositive ==
    \A p \in Procs :
       QueryIssued(p) =>
          LET e == GwIssues(p)[1]
              skip == args[p].skip
          IN IF IsSome(skip) /\ Val(skip) > 0
             THEN ParamsNamed(e, "$skip") = << <<"$skip", Val(skip)>> >>
             ELSE ParamsNamed(e, "$skip") = << >>

\* C13: exactly one $top is emitted; it is the requested top when that is
\* present and positive, and the default page size otherwise.
C13_TopAlwaysValid ==
    \A p \in Procs :
       QueryIssued(p) =>
          LET e == GwIssues(p)[1]
              top == args[p].top
          IN ParamsNamed(e, "$top") =
                << <<"$top", IF IsSome(top) /\ Val(top) > 0
                             THEN Val(top) ELSE DEFAULT_PAGE_SIZE>> >>

\* The <<key, value>> pairs of the clauses of a $filter value, in order.
ClausesOf(value) ==
    [j \in 1..((Len(value) + 1) \div 5) |->
        << value[5 * (j - 1) + 1], value[5 * (j - 1) + 3] >>]

\* value is exactly the clauses `key eq 'value'` joined by ' and '.
WellFormedFilter(value) ==
    /\ (Len(value) + 1) % 5 = 0
    /\ \A n \in 1..Len(value) :
          CASE n % 5 = 2 -> value[n] = " eq '"
            [] n % 5 = 4 -> value[n] = "'"
            [] n % 5 = 0 -> value[n] = " and "
            [] OTHER -> TRUE

\* The position of the entry for key among the filter's entries as given.
InsertionPos(entries, key) == CHOOSE k \in 1..Len(entries) : entries[k][1] = key

\* The clause of key a precedes that of key b in Object.entries order.
EntriesBefore(entries, a, b) ==
    IF IsSome(ArrayIndex(a))
    THEN ~IsSome(ArrayIndex(b)) \/ Val(ArrayIndex(a)) < Val(ArrayIndex(b))
    ELSE ~IsSome(ArrayIndex(b)) /\ InsertionPos(entries, a) < InsertionPos(entries, b)

\* The filter entries of the request and the $filter parameters issued.
FilterEntries(p) == IF IsSome(args[p].filter) THEN Val(args[p].filter) ELSE << >>

FilterParams(p) == ParamsNamed(GwIssues(p)[1], "$filter")

StepsOf(p) == SelectSeq(events[p], LAMBDA e : e # Progress)

IsLineNote(e) == IsNotify(e) /\ e.data[1] = "Line"

IsHeaderCreatedNote(e) == IsNotify(e) /\ e.data[1] = "Header created. Creating "

\* C15: the notification for line i (info on success, error on failure)
\* follows the return of line i's call and precedes the call for line i+1;
\* 'header created' follows a successful header call, precedes the first
\* line call and is never emitted after a failed header call.
C15_NotificationsFollowSteps ==
    \A p \in Procs :
       IsSO(p) =>
          LET E == StepsOf(p)
          IN /\ \A k \in 1..Len(E) :
                   /\ IsLineIssue(E[k]) =>
                         /\ k > 1
                         /\ IF E[k].line = Some(0)
                            THEN IsHeaderCreatedNote(E[k - 1])
                            ELSE /\ IsLineNote(E[k - 1])
                                 /\ E[k - 1].data[2] = Val(E[k].line)
                   /\ IsLineNote(E[k]) =>
                         /\ k > 2
                         /\ IsReturn(E[k - 1])
                         /\ IsLineIssue(E[k - 2])
                         /\ E[k - 2].line = Some(E[k].data[2] - 1)
                         /\ E[k].level = IF E[k - 1].res.isError = Some(TRUE)
                                         THEN "error" ELSE "info"
                   /\ IsHeaderCreatedNote(E[k]) =>
                         /\ k > 2
                         /\ IsReturn(E[k - 1])
                         /\ E[k - 1].res.isError # Some(TRUE)
                         /\ IsIssue(E[k - 2]) /\ E[k - 2].line = None
             /\ HeaderFailedAt(p) =>
                   \A k \in 1..Len(E) : ~IsHeaderCreatedNote(E[k])
             /\ (Done(p) /\ HeaderSucceededAt(p)) =>
                   Len(SelectSeq(E, IsLineNote)) = Len(args[p].lines)

C15_Witness ==
    \E p \in Procs :
       /\ IsSO(p) /\ pc[p] = "so_line_await" /\ i[p] = 1
       /\ nProgress[p] > 0
       /\ \E k \in 1..Len(events[p]) :
             IsLineNote(events[p][k]) /\ events[p][k].level = "error"

IsCorrectedNote(e) == IsNotify(e) /\ e.data[1] = "Corrected entity name from '"

\* C16: in odataQuery the entity-name-correction notification precedes the
\* cross-company-escalation notification, and both precede any progress
\* notification relayed from the Gateway call.
C16_CorrectionBeforeEscalation ==
    \A p \in Procs :
       IsOQ(p) =>
          \A j, k \in 1..Len(Notifs(p)) :
             j < k =>
                /\ ~(Notifs(p)[j] = EscalationNote /\ IsCorrectedNote(Notifs(p)[k]))
                /\ ~(Notifs(p)[j] = Progress /\ Notifs(p)[k] # Progress)

\* The header call and the line calls issued so far by invocation p.
HeaderIssue(p) == GwIssues(p)[1]

\* C17: every line payload carries the order identifier of the header
\* payload: SalesOrderNumber is present in the line payload exactly when it
\* is present in the header payload, with the same value, and dataAreaId
\* is the header's.
C17_LinesCarryHeaderIdentifier ==
    \A p \in Procs :
       IsSO(p) =>
          \A k \in 1..Len(LineIssues(p)) :
             /\ LineIssues(p)[k].body.SalesOrderNumber
                   = HeaderIssue(p).body.SalesOrderNumber
             /\ LineIssues(p)[k].body.dataAreaId = HeaderIssue(p).body.dataAreaId

\* C18: the summary's header.SalesOrderNumber is "(auto-assigned)" exactly
\* when SalesOrderNumber was omitted from the header payload, and otherwise
\* is the SalesOrderNumber that was sent.
C18_SummaryOrderNumber ==
    \A p \in Procs :
       (Done(p) /\ HeaderSucceededAt(p)) =>
          LET shown == result[p].content[1].text[2].header.SalesOrderNumber
              sent == HeaderIssue(p).body.SalesOrderNumber
          IN /\ (shown = "(auto-assigned)") <=> (sent = None)
             /\ IsSome(sent) => shown = Val(sent)

\* The per-line entries invocation p must hold: one per settled line call
\* of its own, built from that call's result.
OwnEntries(p) ==
    [k \in 1..(IF HeaderSettled(p) THEN Len(GwReturns(p)) - 1 ELSE 0) |->
        [index |-> k - 1,
         ok |-> LineReturn(p, k).isError # Some(TRUE),
         message |-> IF LineReturn(p, k).isError # Some(TRUE)
                     THEN <<"Line", k, "created.">>
                     ELSE <<"Line", k, "failed.", FailureDetail(LineReturn(p, k))>>]]

\* C19: under any interleaving of two createSalesOrder invocations each
\* one's recorded outcomes and result are determined by its own arguments
\* and its own Gateway results; no entry of the other invocation appears.
C19_InvocationsIsolated ==
    \A p \in Procs :
       /\ perLineResults[p] = OwnEntries(p)
       /\ Done(p) =>
             /\ ~result[p].thrown
             /\ IF HeaderFailedAt(p)
                THEN /\ result[p].isError = Some(TRUE)
                     /\ result[p].content[1].text[2] = FailureDetail(GwReturns(p)[1].res)
                ELSE /\ result[p].isError = None
                     /\ ReturnedLines(p) = OwnEntries(p)
                     /\ Len(ReturnedLines(p)) = Len(args[p].lines)

C19_Witness ==
    /\ pc[1] = "so_line_await" /\ i[1] = 1
    /\ pc[2] = "so_line_notify" /\ i[2] = 0
    /\ Len(perLineResults[1]) = 1 /\ Len(perLineResults[2]) = 1
    /\ perLineResults[1][1].ok /\ ~perLineResults[2][1].ok
    /\ args[1] # args[2]

\* A settled createSalesOrder invocation is in one of its two terminal
\* states, with the Gateway calls that state allows.
TerminalShape(p) ==
    IF HeaderFailedAt(p)
    THEN /\ result[p].isError = Some(TRUE)
         /\ Len(GwIssues(p)) = 1
         /\ Len(GwReturns(p)) = 1
    ELSE /\ result[p].isError = None
         /\ Len(GwIssues(p)) = 1 + Len(args[p].lines)
         /\ Len(GwReturns(p)) = 1 + Len(args[p].lines)
         /\ Len(perLineResults[p]) = Len(args[p].lines)
         /\ Len(ReturnedLines(p)) = Len(args[p].lines)

\* C20: every createSalesOrder invocation eventually returns, either the
\* header-failure result after exactly 1 Gateway call or the summary after
\* exactly 1 + N calls, all N line outcomes recorded.
C20_Terminates ==
    /\ <>(\A p \in Procs : IsSO(p) => Done(p))
    /\ [](\A p \in Procs : (IsSO(p) /\ Done(p)) => (~result[p].thrown /\ TerminalShape(p)))

C20_Witness ==
    \E p \in Procs :
       /\ IsSO(p) /\ Done(p)
       /\ cancelled[p] # "no"
       /\ Len(GwIssues(p)) = 1 + MaxLines

====
